---- MODULE Spec2Model ----
(***************************************************************************)
(* Model of ScriptArgs::send_transactions                                  *)
(* (cli/src/cmd/forge/script/broadcast.rs): the broadcast loop over a      *)
(* ScriptSequence, its nonce reconciliation under --force-resume, the      *)
(* persisted copy of the sequence, and the chain it talks to.              *)
(*                                                                         *)
(* Option<T> is a sequence of length at most one: None is <<>>, Some(v) is *)
(* <<v>>.  The cursor `index` is 0-based as in the code; entry i of the    *)
(* plan is transactions[i + 1].                                            *)
(*                                                                         *)
(* U256 arithmetic is checked: `a - b` panics when b > a.  The bounds keep *)
(* every sum far below 2^256, so the overflow panic of `+` is unreachable. *)
(* The plan holds legacy requests with `from` and `nonce` set, and the     *)
(* planned nonces of one sender are consecutive, as the planner that       *)
(* builds the sequence produces them.  The arguments of the command line   *)
(* and the chain id of the endpoint are fixed for a behaviour; only        *)
(* --force-resume may differ between two invocations.                      *)
(***************************************************************************)
EXTENDS Integers, Sequences, FiniteSets, TLC

\* ------------------------------------------------------------------ bounds
MaxPlan == 3
MaxPlanNonce == 1
MaxInitNonce == 1
MaxDrift == 1
MaxRuns == 2

\* ------------------------------------------------------------- value sets
Senders == {"A", "B"}
ChainIds == {1, 56, 12345}
KnownChains == {1, 56}
LegacyChains == {56}

None == <<>>
Some(v) == <<v>>
IsSome(o) == Len(o) = 1
Unwrap(o) == o[1]

\* A planned transaction: TypedTransaction::Legacy(TransactionRequest).
LegacyTx(f, n) ==
    [kind |-> "Legacy", from |-> Some(f), to |-> None, value |-> None,
     data |-> None, nonce |-> Some(n), fee |-> None, chain_id |-> None]

RECURSIVE SeqsUpTo(_, _)
SeqsUpTo(S, n) ==
    IF n = 0 THEN {<<>>}
    ELSE LET shorter == SeqsUpTo(S, n - 1)
         IN  shorter \cup {Append(s, e) : s \in {t \in shorter : Len(t) = n - 1}, e \in S}

\* The plan of the senders `froms`, the first nonce of sender s being base[s].
PlanOf(froms, base) ==
    [k \in 1..Len(froms) |->
        LegacyTx(froms[k],
                 base[froms[k]] + Cardinality({j \in 1..(k - 1) : froms[j] = froms[k]}))]

\* Sender A is the account whose planned and chain nonces vary; sender B is
\* planned from nonce 0 on a chain that has seen nothing of it.
Varying == {"A"}
NoncesUpTo(n) == {f \in [Senders -> 0..n] : \A s \in Senders \ Varying : f[s] = 0}

Plans == {PlanOf(froms, base) : froms \in SeqsUpTo(Senders, MaxPlan) \ {<<>>},
                                base \in NoncesUpTo(MaxPlanNonce)}

\* ScriptArgs as given on the command line.
Args(fr, lg, url, ws) ==
    [force_resume |-> fr, legacy |-> lg, fork_url |-> url, wallets |-> ws]

\* The command lines of the main specification: one wallet or two, legacy
\* forced or not, with and without --force-resume; and the two that cannot
\* start, for want of a wallet or of an endpoint.
MainArgs == {Args(fr, FALSE, TRUE, <<"A">>) : fr \in BOOLEAN}
                \cup {Args(fr, TRUE, TRUE, <<"B", "A">>) : fr \in BOOLEAN}
                \cup {Args(FALSE, FALSE, TRUE, <<>>), Args(FALSE, FALSE, FALSE, <<"A">>)}

VARIABLES
    seq,            \* deployment_sequence in memory: transactions, index, receipts
    disk,           \* the sequence as last written by save()
    pc,             \* position of the process
    self,           \* ScriptArgs: force_resume, legacy, fork_url, wallets
    net,            \* the chain id of the endpoint
    local_wallets,  \* Vec of wallets, each an address bound to a chain id
    chain,          \* Option: chain id returned by the probe
    is_legacy,
    nonce_offset,   \* BTreeMap<Address, U256> as a function to Option
    iter,           \* the cloned transactions and the position of range(index..)
    cur,            \* the entry being processed: tx, signer, nonce read
    chainNonce,     \* the chain: next nonce of every sender
    run,            \* number of invocations so far
    subs,           \* history: send_transaction calls of this run
    bcast,          \* history: per entry, broadcasts accepted by the node, all runs
    rcpt,           \* history: per entry, receipts obtained from the node, all runs
    probes,         \* history: calls of get_chainid in this run
    conv,           \* into_1559 on its own: the argument and the results
    inserted,       \* history: per sender, values inserted in nonce_offset this run
    seen,           \* history: per sender, the nonces read and planned, this run
    lastAct,        \* history: "save" when the last step of the run wrote the store
    failure,        \* history: why the run aborted
    drift,          \* number of foreign transactions mined so far
    start,          \* history: cursor loaded at the start of this run
    prev            \* history: how the previous run ended and its in-memory cursor

vars == <<seq, disk, pc, self, net, local_wallets, chain, is_legacy, nonce_offset,
          iter, cur, chainNonce, run, subs, bcast, rcpt, probes, inserted, seen,
          lastAct, failure, drift, start, prev, conv>>

envVars == <<net, chainNonce, drift>>
histVars == <<subs, bcast, rcpt, inserted, seen, start, prev, conv>>

NoConv == [arg |-> None, out |-> <<>>]
NoCur == [entry |-> 0, tx |-> None, signer |-> None, auth |-> None]
NoPrev == [exit |-> "none", index |-> 0]
EmptyOffsets == [s \in Senders |-> None]
NoInserted == [s \in Senders |-> <<>>]

Running == {"wallets", "provider", "probe", "select", "shape", "nonce", "send",
            "record", "final"}
Stopped == {"idle", "done", "aborted", "killed"}

\* the fatal conditions met inside the per-entry loop
LoopFailures == {"unknown_sender", "nonce_query", "nonce_conflict", "overflow",
                 "send_failed", "no_receipt"}

\* ------------------------------------------------- the store (ScriptSequence)
\* save(): the persisted copy becomes the in-memory sequence.
Save(s) == s

\* add_receipt(receipt): pushes the receipt.
AddReceipt(s, r) == [s EXCEPT !.receipts = Append(@, r)]

\* deployment_sequence.index += 1
AdvanceIndexTwice(s) == [s EXCEPT !.index = @ + 2]
AdvanceIndex(s) == [s EXCEPT !.index = @ + 1]

\* ------------------------------------------------------ transaction shaping
into_1559_with_fee(tx) ==
    IF tx.kind = "Legacy"
    THEN [kind |-> "Eip1559", from |-> tx.from, to |-> tx.to, value |-> tx.value,
          data |-> tx.data, nonce |-> tx.nonce, fee |-> tx.fee, chain_id |-> None]
    ELSE tx

into_1559(tx) ==
    IF tx.kind = "Legacy"
    THEN [kind |-> "Eip1559", from |-> tx.from, to |-> tx.to, value |-> tx.value,
          data |-> tx.data, nonce |-> tx.nonce, fee |-> None, chain_id |-> None]
    ELSE tx

set_chain_id_legacy(tx, chain_id) ==
    IF tx.kind = "Legacy" THEN [tx EXCEPT !.chain_id = Some(chain_id)] ELSE tx
set_chain_id(tx, chain_id) == [tx EXCEPT !.chain_id = Some(chain_id)]

set_nonce_next(tx, n) == [tx EXCEPT !.nonce = Some(n + 1)]
set_nonce(tx, n) == [tx EXCEPT !.nonce = Some(n)]

IsLegacyChainOrUnknown(c) == c \notin KnownChains \/ c \in LegacyChains
IsLegacyChain(c) == c \in KnownChains /\ c \in LegacyChains

\* local_wallets.iter().find(|wallet| wallet.address() == from)
FindFirstWallet(ws, from) == IF ws = <<>> THEN None ELSE Some(ws[1])
FindWalletOrFirst(ws, from) ==
    IF ws = <<>> THEN None
    ELSE IF \E k \in 1..Len(ws) : ws[k].address = from
         THEN Some(ws[CHOOSE k \in 1..Len(ws) : ws[k].address = from])
         ELSE Some(ws[1])
RECURSIVE FindWallet(_, _)
FindWallet(ws, from) ==
    IF ws = <<>> THEN None
    ELSE IF ws[1].address = from THEN Some(ws[1])
    ELSE FindWallet(Tail(ws), from)

\* ------------------------------------------------------ nonce reconciliation
\* nonce_offset.get(&from)
LookupForget(offsets, from) == None
LookupOffset(offsets, from) == offsets[from]

\* nonce_offset.insert(from, offset)
RememberForAll(offsets, from, offset) == [s \in DOMAIN offsets |-> Some(offset)]
RememberNonZero(offsets, from, offset) ==
    IF offset = 0 THEN offsets ELSE [offsets EXCEPT ![from] = Some(offset)]
Remember(offsets, from, offset) == [offsets EXCEPT ![from] = Some(offset)]

\* nonce - tx_nonce on U256: None stands for the overflow panic.
CheckedSubSmall(a, b) == IF a >= b /\ a - b <= 1 THEN Some(a - b) ELSE None
CheckedSub(a, b) == IF a >= b THEN Some(a - b) ELSE None

\* the test of line 114, negated: the nonce to send equals the chain's
NonceAtLeast(nonce, tx_nonce, offset) == nonce >= tx_nonce + offset
NonceMatches(nonce, tx_nonce, offset) == nonce = tx_nonce + offset

\* the nonce stamped on the transaction (lines 119-121)
StampPlanned(tx, tx_nonce, offset) == tx
Stamp(tx, tx_nonce, offset) ==
    IF offset # 0 THEN set_nonce(tx, tx_nonce + offset) ELSE tx

\* ------------------------------------------------------------ run set-up
\* local_wallets.is_empty(), negated (line 41)
HasWalletsAlways(ws) == TRUE
HasWallets(ws) == ws # <<>>

\* wallet.with_chain_id(chain) on every wallet (lines 57-58)
RebindFirst(ws, c) ==
    [k \in 1..Len(ws) |-> IF k = 1 THEN [ws[k] EXCEPT !.chain_id = Some(c)] ELSE ws[k]]
Rebind(ws, c) == [k \in 1..Len(ws) |-> [ws[k] EXCEPT !.chain_id = Some(c)]]

\* deployment_sequence.clone().transactions.range(index..) (lines 65-68)
RangeFromZero(s) == [txs |-> s.transactions, pos |-> 0]
RangeFrom(s) == [txs |-> s.transactions, pos |-> s.index]

\* the panic that ends the run after a submission without receipt (150-158)
SignalRejected(outcome) == "send_failed"
Signal(outcome) == IF outcome = "none" THEN "no_receipt" ELSE "send_failed"

\* ---------------------------------------------------------------------- Init
\* The store of plan `plan` after its first k entries were completed.
StoreAt(plan, k) ==
    [transactions |-> plan, index |-> k, receipts |-> [i \in 1..k |-> i - 1]]

InitWith(stores, argss, nets) ==
    /\ disk \in stores
    /\ seq = disk
    /\ chainNonce \in NoncesUpTo(MaxInitNonce)
    /\ pc = "idle"
    /\ self \in argss
    /\ net \in nets
    /\ local_wallets = <<>>
    /\ chain = None
    /\ is_legacy = FALSE
    /\ nonce_offset = EmptyOffsets
    /\ iter = [txs |-> <<>>, pos |-> 0]
    /\ cur = NoCur
    /\ run = 0
    /\ subs = <<>>
    /\ bcast = [i \in 0..(MaxPlan - 1) |-> IF i < disk.index THEN 1 ELSE 0]
    /\ rcpt = bcast
    /\ probes = 0
    /\ inserted = NoInserted
    /\ seen = NoInserted
    /\ lastAct = "none"
    /\ failure = "none"
    /\ drift = 0
    /\ start = 0
    /\ prev = NoPrev

\* The planner hands over the sequence with cursor 0 and no receipt.
Init ==
    /\ InitWith({StoreAt(plan, 0) : plan \in Plans}, MainArgs, ChainIds)
    /\ conv = NoConv

\* One invocation, on a store left by earlier runs at any cursor.
InitRun ==
    /\ InitWith(UNION {{StoreAt(plan, k) : k \in 0..Len(plan)} : plan \in Plans},
                MainArgs, ChainIds)
    /\ conv = NoConv

\* ------------------------------------------------------------------- actions
\* A new process is started on the persisted sequence with some arguments.
Invoke(fr) ==
    /\ pc \in Stopped
    /\ run < MaxRuns
    /\ run' = run + 1
    /\ prev' = IF pc = "killed" THEN prev
                ELSE [exit |-> IF failure \in LoopFailures THEN "aborted in loop" ELSE pc,
                      index |-> seq.index]
    /\ seq' = disk
    /\ start' = disk.index
    /\ self' = [self EXCEPT !.force_resume = fr]
    /\ pc' = "wallets"
    /\ local_wallets' = <<>>
    /\ chain' = None
    /\ is_legacy' = FALSE
    /\ nonce_offset' = EmptyOffsets
    /\ iter' = [txs |-> <<>>, pos |-> 0]
    /\ cur' = NoCur
    /\ subs' = <<>>
    /\ inserted' = NoInserted
    /\ seen' = NoInserted
    /\ lastAct' = "none"
    /\ failure' = "none"
    /\ probes' = 0
    /\ UNCHANGED <<disk, net, bcast, rcpt, chainNonce, drift, conv>>

\* panic!/expect without a save: the process ends, nothing is written.
PanicAndRestart(why) ==
    /\ pc' = "wallets"
    /\ failure' = why
    /\ lastAct' = "panic"
    /\ UNCHANGED disk

Panic(why) ==
    /\ pc' = "aborted"
    /\ failure' = why
    /\ lastAct' = "panic"
    /\ UNCHANGED disk

\* deployment_sequence.save() followed by panic!
SaveAndRetry(why) ==
    /\ failure' = why
    /\ lastAct' = "save"
    /\ disk' = Save(seq)
    /\ UNCHANGED pc

SaveAndPanic(why) ==
    /\ pc' = "aborted"
    /\ failure' = why
    /\ lastAct' = "save"
    /\ disk' = Save(seq)

\* lines 21-43: the wallets of every key source, or panic when there is none
CollectWallets ==
    /\ pc = "wallets"
    /\ local_wallets' = [k \in 1..Len(self.wallets) |->
                            [address |-> self.wallets[k], chain_id |-> None]]
    /\ IF ~HasWallets(self.wallets)
       THEN Panic("no_wallet")
       ELSE /\ pc' = "provider"
            /\ UNCHANGED <<disk, failure, lastAct>>
    /\ UNCHANGED <<seq, self, chain, is_legacy, nonce_offset, iter, cur, run, probes>>
    /\ UNCHANGED envVars
    /\ UNCHANGED histVars

\* lines 45-51: fork_url.expect(...)
MakeProvider ==
    /\ pc = "provider"
    /\ IF ~self.fork_url
       THEN Panic("no_url")
       ELSE /\ pc' = "probe"
            /\ UNCHANGED <<disk, failure, lastAct>>
    /\ UNCHANGED <<seq, self, local_wallets, chain, is_legacy, nonce_offset, iter, cur,
                   run, probes>>
    /\ UNCHANGED envVars
    /\ UNCHANGED histVars

\* lines 53-68: get_chainid()?, is_legacy, wallets rebound, empty offsets,
\* and the iterator over the clone of the transactions from the cursor on
ProbeAgain(res) ==
    /\ pc = "probe"
    /\ probes' = probes + 1
    /\ IF res = None
       THEN /\ probes < 2
            /\ UNCHANGED <<pc, failure, lastAct>>
            /\ UNCHANGED <<chain, is_legacy, local_wallets, nonce_offset, iter>>
       ELSE /\ chain' = res
            /\ is_legacy' = (self.legacy \/ IsLegacyChain(Unwrap(res)))
            /\ local_wallets' = Rebind(local_wallets, Unwrap(res))
            /\ nonce_offset' = EmptyOffsets
            /\ iter' = RangeFrom(seq)
            /\ pc' = "select"
            /\ UNCHANGED <<failure, lastAct>>
    /\ UNCHANGED <<seq, disk, self, cur, run>>
    /\ UNCHANGED envVars
    /\ UNCHANGED histVars

Probe(res) ==
    /\ pc = "probe"
    /\ probes' = probes + 1
    /\ IF res = None
       THEN /\ pc' = "aborted"
            /\ failure' = "probe"
            /\ lastAct' = "error"
            /\ UNCHANGED <<chain, is_legacy, local_wallets, nonce_offset, iter>>
       ELSE /\ chain' = res
            /\ is_legacy' = (self.legacy \/ IsLegacyChain(Unwrap(res)))
            /\ local_wallets' = Rebind(local_wallets, Unwrap(res))
            /\ nonce_offset' = EmptyOffsets
            /\ iter' = RangeFrom(seq)
            /\ pc' = "select"
            /\ UNCHANGED <<failure, lastAct>>
    /\ UNCHANGED <<seq, disk, self, cur, run>>
    /\ UNCHANGED envVars
    /\ UNCHANGED histVars

\* lines 69-89 and 164-167: the next element of the range, its wallet looked
\* up by address; without a wallet the sequence is saved and the run panics
SelectSigner ==
    /\ pc = "select"
    /\ IF iter.pos >= Len(iter.txs)
       THEN /\ pc' = "final"
            /\ UNCHANGED <<iter, cur, disk, failure, lastAct>>
       ELSE LET tx == iter.txs[iter.pos + 1]
                wallet == FindWallet(local_wallets, Unwrap(tx.from))
            IN  /\ iter' = [iter EXCEPT !.pos = @ + 1]
                /\ cur' = [entry |-> iter.pos, tx |-> Some(tx), signer |-> wallet,
                           auth |-> None]
                /\ IF IsSome(wallet)
                   THEN /\ pc' = "shape"
                        /\ UNCHANGED <<disk, failure, lastAct>>
                   ELSE SaveAndPanic("unknown_sender")
    /\ UNCHANGED <<seq, self, local_wallets, chain, is_legacy, nonce_offset, run, probes>>
    /\ UNCHANGED envVars
    /\ UNCHANGED histVars

\* lines 90-95
ShapeInPlace ==
    /\ pc = "shape"
    /\ LET tx == Unwrap(cur.tx)
           legacy_or_1559 == IF is_legacy THEN tx ELSE into_1559(tx)
           shaped == set_chain_id(legacy_or_1559, Unwrap(chain))
       IN  /\ cur' = [cur EXCEPT !.tx = Some(shaped)]
           /\ seq' = [seq EXCEPT !.transactions[cur.entry + 1] = shaped]
    /\ pc' = "nonce"
    /\ UNCHANGED <<disk, self, local_wallets, chain, is_legacy, nonce_offset,
                   iter, run, lastAct, failure, probes>>
    /\ UNCHANGED envVars
    /\ UNCHANGED histVars

ShapeDeferred ==
    /\ pc = "shape"
    /\ pc' = "nonce"
    /\ UNCHANGED <<seq, disk, self, local_wallets, chain, is_legacy, nonce_offset,
                   iter, cur, run, lastAct, failure, probes>>
    /\ UNCHANGED envVars
    /\ UNCHANGED histVars

Shape ==
    /\ pc = "shape"
    /\ LET tx == Unwrap(cur.tx)
           legacy_or_1559 == IF is_legacy THEN tx ELSE into_1559(tx)
       IN  cur' = [cur EXCEPT !.tx = Some(set_chain_id(legacy_or_1559, Unwrap(chain)))]
    /\ pc' = "nonce"
    /\ UNCHANGED <<seq, disk, self, local_wallets, chain, is_legacy, nonce_offset,
                   iter, run, lastAct, failure, probes>>
    /\ UNCHANGED envVars
    /\ UNCHANGED histVars

\* lines 97-127: next_nonce, the offset under --force-resume, the comparison
Reconcile(res) ==
    /\ pc = "nonce"
    /\ LET tx == Unwrap(cur.tx)
           from == Unwrap(tx.from)
       IN  IF res = None
           THEN /\ SaveAndPanic("nonce_query")
                /\ UNCHANGED <<nonce_offset, cur, inserted, seen>>
           ELSE
             LET nonce == Unwrap(res)
                 tx_nonce == Unwrap(tx.nonce)
                 known == LookupOffset(nonce_offset, from)
                 fresh == CheckedSub(nonce, tx_nonce)
                 compute == self.force_resume /\ ~IsSome(known)
                 obs == [seen EXCEPT ![from] =
                            Append(@, [auth |-> nonce, planned |-> tx_nonce])]
             IN  IF compute /\ ~IsSome(fresh)
                 THEN /\ Panic("overflow")
                      /\ cur' = [cur EXCEPT !.auth = res]
                      /\ seen' = obs
                      /\ UNCHANGED <<nonce_offset, inserted>>
                 ELSE
                   LET offset == IF self.force_resume
                                 THEN IF IsSome(known) THEN Unwrap(known) ELSE Unwrap(fresh)
                                 ELSE 0
                   IN  /\ nonce_offset' = IF compute
                                          THEN Remember(nonce_offset, from, offset)
                                          ELSE nonce_offset
                       /\ inserted' = IF compute
                                      THEN [inserted EXCEPT ![from] = Append(@, offset)]
                                      ELSE inserted
                       /\ seen' = obs
                       /\ IF ~NonceMatches(nonce, tx_nonce, offset)
                          THEN /\ SaveAndPanic("nonce_conflict")
                               /\ cur' = [cur EXCEPT !.auth = res]
                          ELSE /\ cur' = [cur EXCEPT !.auth = res,
                                              !.tx = Some(Stamp(tx, tx_nonce, offset))]
                               /\ pc' = "send"
                               /\ UNCHANGED <<disk, failure, lastAct>>
    /\ UNCHANGED <<seq, self, local_wallets, chain, is_legacy, iter, run, probes>>
    /\ UNCHANGED envVars
    /\ UNCHANGED <<subs, bcast, rcpt, start, prev, conv>>

\* the node answers next_nonce with the sender's nonce, or the query fails
QueryNonce ==
    /\ pc = "nonce"
    /\ \E res \in {None, Some(chainNonce[Unwrap(Unwrap(cur.tx).from)])} : Reconcile(res)

\* lines 129-159: send_transaction and the wait for the receipt
\*   "rejected"    send_transaction returned Err
\*   "confirm_err" the transaction was broadcast, the wait returned Err
\*   "none"        the transaction was broadcast, the wait returned Ok(None)
\*   "receipt"     the transaction was mined
Send(outcome, mined) ==
    /\ pc = "send"
    /\ LET tx == Unwrap(cur.tx)
           from == Unwrap(tx.from)
           fits == Unwrap(tx.nonce) = chainNonce[from]
       IN  /\ subs' = Append(subs, [entry |-> cur.entry, tx |-> tx,
                                    signer |-> Unwrap(cur.signer),
                                    auth |-> Unwrap(cur.auth),
                                    outcome |-> outcome])
           /\ bcast' = IF outcome = "rejected" THEN bcast
                       ELSE [bcast EXCEPT ![cur.entry] = @ + 1]
           /\ rcpt' = IF outcome = "receipt" THEN [rcpt EXCEPT ![cur.entry] = @ + 1]
                      ELSE rcpt
           /\ CASE outcome = "receipt" ->
                     /\ fits /\ mined
                     /\ chainNonce' = [chainNonce EXCEPT ![from] = @ + 1]
                     /\ pc' = "record"
                     /\ UNCHANGED <<disk, failure, lastAct>>
                [] outcome = "none" ->
                     /\ mined => fits
                     /\ chainNonce' = IF mined THEN [chainNonce EXCEPT ![from] = @ + 1]
                                      ELSE chainNonce
                     /\ SaveAndPanic(Signal(outcome))
                [] outcome = "confirm_err" ->
                     /\ mined => fits
                     /\ chainNonce' = IF mined THEN [chainNonce EXCEPT ![from] = @ + 1]
                                      ELSE chainNonce
                     /\ SaveAndPanic(Signal(outcome))
                [] outcome = "rejected" ->
                     /\ ~mined
                     /\ UNCHANGED chainNonce
                     /\ SaveAndPanic(Signal(outcome))
    /\ UNCHANGED <<seq, self, net, local_wallets, chain, is_legacy, nonce_offset, iter,
                   cur, run, drift, inserted, seen, start, prev, probes, conv>>

\* lines 161-162: add_receipt(receipt); index += 1
RecordWithoutReceipt ==
    /\ pc \in {"send", "record"}
    /\ seq' = AdvanceIndex(AddReceipt(seq, cur.entry))
    /\ cur' = NoCur
    /\ pc' = "select"
    /\ lastAct' = "record"
    /\ UNCHANGED <<disk, self, local_wallets, chain, is_legacy, nonce_offset, iter,
                   run, failure, probes>>
    /\ UNCHANGED envVars
    /\ UNCHANGED histVars

Record ==
    /\ pc = "record"
    /\ seq' = AdvanceIndex(AddReceipt(seq, cur.entry))
    /\ cur' = NoCur
    /\ pc' = "select"
    /\ lastAct' = "record"
    /\ UNCHANGED <<disk, self, local_wallets, chain, is_legacy, nonce_offset, iter,
                   run, failure, probes>>
    /\ UNCHANGED envVars
    /\ UNCHANGED histVars

\* lines 171-178: the save after the loop, then Ok(())
FinishUnsaved ==
    /\ pc = "final"
    /\ pc' = "done"
    /\ UNCHANGED <<seq, disk, lastAct, self, local_wallets, chain, is_legacy, nonce_offset,
                   iter, cur, run, failure, probes>>
    /\ UNCHANGED envVars
    /\ UNCHANGED histVars

Finish ==
    /\ pc = "final"
    /\ disk' = Save(seq)
    /\ lastAct' = "save"
    /\ pc' = "done"
    /\ UNCHANGED <<seq, self, local_wallets, chain, is_legacy, nonce_offset, iter,
                   cur, run, failure, probes>>
    /\ UNCHANGED envVars
    /\ UNCHANGED histVars

\* The process is killed: memory is lost, the file stays as last written.
Kill ==
    /\ pc \in Running
    /\ pc' = "killed"
    /\ prev' = [exit |-> "killed", index |-> seq.index]
    /\ seq' = disk
    /\ local_wallets' = <<>>
    /\ chain' = None
    /\ is_legacy' = FALSE
    /\ nonce_offset' = EmptyOffsets
    /\ iter' = [txs |-> <<>>, pos |-> 0]
    /\ cur' = NoCur
    /\ inserted' = NoInserted
    /\ seen' = NoInserted
    /\ subs' = <<>>
    /\ lastAct' = "none"
    /\ probes' = 0
    /\ UNCHANGED <<disk, self, run, failure, bcast, rcpt, start, conv>>
    /\ UNCHANGED envVars

\* Somebody else's transaction of sender s is mined; the process learns of it
\* by its next nonce query.
ForeignTx(s) ==
    /\ drift < MaxDrift
    /\ pc = "nonce"
    /\ drift' = drift + 1
    /\ chainNonce' = [chainNonce EXCEPT ![s] = @ + 1]
    /\ UNCHANGED <<net, seq, disk, pc, self, local_wallets, chain, is_legacy, nonce_offset,
                   iter, cur, run, lastAct, failure, probes>>
    /\ UNCHANGED histVars

\* The only invocation of a behaviour of SpecRun.
Start ==
    /\ pc = "idle"
    /\ Invoke(self.force_resume)

NextRun ==
    \/ Start
    \/ CollectWallets
    \/ MakeProvider
    \/ \E res \in {None, Some(net)} : Probe(res)
    \/ SelectSigner
    \/ Shape
    \/ QueryNonce
    \/ \E outcome \in {"rejected", "confirm_err", "none", "receipt"},
          mined \in BOOLEAN : Send(outcome, mined)
    \/ Record
    \/ Finish
    \/ Kill
    \/ \E s \in Senders : ForeignTx(s)

SpecRun == InitRun /\ [][NextRun]_vars

\* A step of the running invocation: every call it makes returns.
Step ==
    \/ CollectWallets
    \/ MakeProvider
    \/ \E res \in {None, Some(net)} : Probe(res)
    \/ SelectSigner
    \/ Shape
    \/ QueryNonce
    \/ \E outcome \in {"rejected", "confirm_err", "none", "receipt"},
          mined \in BOOLEAN : Send(outcome, mined)
    \/ Record
    \/ Finish

\* One invocation that is not killed, next to other users of the chain.
NextTerm ==
    \/ Start
    \/ Step
    \/ \E s \in Senders : ForeignTx(s)

\* The stores and arguments of InitRun on one chain: the chain id has no part
\* in whether a run ends.
InitTerm == InitRun /\ net = 1

\* The invocation is started and keeps taking steps while it has one to take.
SpecTerm == InitTerm /\ [][NextTerm]_vars /\ WF_vars(Start) /\ WF_vars(Step)

Next ==
    \/ \E fr \in BOOLEAN : Invoke(fr)
    \/ CollectWallets
    \/ MakeProvider
    \/ \E res \in {None, Some(net)} : Probe(res)
    \/ SelectSigner
    \/ Shape
    \/ QueryNonce
    \/ \E outcome \in {"rejected", "confirm_err", "none", "receipt"},
          mined \in BOOLEAN : Send(outcome, mined)
    \/ Record
    \/ Finish
    \/ Kill
    \/ \E s \in Senders : ForeignTx(s)

Spec == Init /\ [][Next]_vars

\* ------------------------------------------------------- into_1559 on its own
\* the variants of TypedTransaction
TxKinds == {"Legacy", "Eip2930", "Eip1559"}
\* the values of a field of a request: unset, or one of a few values
Opt(S) == {None} \cup {Some(v) : v \in S}

\* Transactions of every variant, each field set or unset.
TxInputs ==
    [kind : TxKinds, from : Opt({"A"}), to : Opt({"B"}), value : Opt({1}),
     data : Opt({1}), nonce : Opt(0..MaxPlanNonce), fee : Opt({1}),
     chain_id : Opt(ChainIds)]

InitConv ==
    /\ InitWith({StoreAt(<<>>, 0)}, {Args(FALSE, FALSE, TRUE, <<"A">>)}, {1})
    /\ conv \in [arg : {Some(t) : t \in TxInputs}, out : {<<>>}]

\* into_1559 applied to the argument, then to its own result (lines 204-215)
Apply ==
    /\ pc = "idle"
    /\ IsSome(conv.arg)
    /\ Len(conv.out) < 2
    /\ LET tx == IF conv.out = <<>> THEN Unwrap(conv.arg) ELSE conv.out[Len(conv.out)]
       IN  /\ tx.kind \in {"Legacy", "Eip1559"}
           /\ conv' = [conv EXCEPT !.out = Append(@, into_1559(tx))]
    /\ UNCHANGED <<seq, disk, pc, self, net, local_wallets, chain, is_legacy, nonce_offset,
                   iter, cur, chainNonce, run, subs, bcast, rcpt, probes, inserted, seen,
                   lastAct, failure, drift, start, prev>>

\* into_1559 applied to any other variant panics (line 215)
ApplyPanics ==
    /\ pc = "idle"
    /\ IsSome(conv.arg)
    /\ conv.out = <<>>
    /\ Unwrap(conv.arg).kind \notin {"Legacy", "Eip1559"}
    /\ pc' = "aborted"
    /\ failure' = "wrong_type"
    /\ lastAct' = "panic"
    /\ UNCHANGED <<seq, disk, self, net, local_wallets, chain, is_legacy, nonce_offset,
                   iter, cur, chainNonce, run, subs, bcast, rcpt, probes, inserted, seen,
                   drift, start, prev, conv>>

NextConv ==
    \/ Apply
    \/ ApplyPanics

SpecConv == InitConv /\ [][NextConv]_vars

\* --------------------------------------------------------------- properties
Planned(i) == Unwrap(seq.transactions[i + 1].nonce)
SenderOf(i) == Unwrap(seq.transactions[i + 1].from)
Entries(log) == {log[k].entry : k \in 1..Len(log)}
CurFrom == Unwrap(Unwrap(cur.tx).from)
NonceConflict == pc = "aborted" /\ failure = "nonce_conflict"
\* the store was written last, and holds what the process holds
Persisted == lastAct = "save" /\ disk = seq
\* the entry being processed was neither sent nor counted
CurNotSent ==
    /\ seq.index = cur.entry
    /\ disk.index = cur.entry
    /\ \A k \in 1..Len(subs) : subs[k].entry < cur.entry

\* C1: whenever a submission is in flight, every receipt recorded so far has
\* been saved: the persisted index and receipts equal the ones in memory.
C1_SavedBeforeNextSubmission ==
    pc = "send" => (disk.index = seq.index /\ disk.receipts = seq.receipts)

\* C2: a run that follows a kill after k completed entries starts at entry k,
\* never sends an entry below k, and sends exactly len(plan) - k entries when
\* it succeeds.
C2_Resumability ==
    (prev.exit = "killed" /\ pc # "killed") =>
        /\ start = prev.index
        /\ \A e \in Entries(subs) : e >= prev.index
        /\ pc = "done" => Len(subs) = Len(seq.transactions) - prev.index

\* C3: every persisted state of the store has as many receipts as its index.
C3_CrashConsistency == Len(disk.receipts) = disk.index

\* a save on a fatal path, after two entries of this run were completed
C3_Witness ==
    /\ pc = "aborted"
    /\ lastAct = "save"
    /\ disk.index >= start + 2
    /\ disk.index < Len(disk.transactions)

\* C4: a run that ends on a fatal condition met inside the per-entry loop has
\* saved the store as its last action, so that the file holds the progress.
C4_AbortAfterSave ==
    (pc = "aborted" /\ failure \in LoopFailures) => Persisted

\* C5: after a run that ended in a fatal abort inside the loop, the next run
\* starts at the cursor the aborted run had reached, and over both runs no
\* entry is broadcast more than once.
C5_NoEntrySentTwice ==
    (prev.exit = "aborted in loop" /\ pc # "killed") =>
        /\ start = prev.index
        /\ \A i \in DOMAIN bcast : bcast[i] <= 1

\* C6: without --force-resume a transaction is only sent when the nonce read
\* from the chain equals its planned nonce; on a mismatch the store is saved,
\* the run aborts, and neither that entry nor a later one has been sent.
C6_StrictRejection ==
    ~self.force_resume =>
        /\ \A k \in 1..Len(subs) :
              /\ subs[k].auth = Planned(subs[k].entry)
              /\ Unwrap(subs[k].tx.nonce) = Planned(subs[k].entry)
        /\ pc = "send" => Unwrap(cur.auth) = Planned(cur.entry)
        /\ NonceConflict =>
              /\ Unwrap(cur.auth) # Planned(cur.entry)
              /\ Persisted
              /\ CurNotSent

\* a mismatch after an entry of this run was completed, with entries left
C6_Witness ==
    /\ ~self.force_resume
    /\ NonceConflict
    /\ seq.index > start
    /\ cur.entry + 1 < Len(seq.transactions)

\* C7: under --force-resume, with d the excess of the chain's nonce over the
\* planned nonce at the sender's first transaction of the run, d is computed
\* once and every transaction of the sender that is sent carries planned + d.
C7_OffsetIdempotence ==
    self.force_resume =>
        /\ \A s \in Senders : Len(inserted[s]) <= 1
        /\ \A k \in 1..Len(subs) :
              LET s == SenderOf(subs[k].entry)
                  d == seen[s][1].auth - seen[s][1].planned
              IN  /\ d >= 0
                  /\ inserted[s] = <<d>>
                  /\ Unwrap(subs[k].tx.nonce) = Planned(subs[k].entry) + d

\* three transactions of one sender, the chain two ahead: all sent, two ahead
C7_Witness ==
    /\ self.force_resume
    /\ pc = "done"
    /\ start = 0
    /\ Len(subs) = 3
    /\ \A k \in 1..Len(subs) :
          /\ SenderOf(subs[k].entry) = "A"
          /\ Planned(subs[k].entry) = k - 1
          /\ Unwrap(subs[k].tx.nonce) = k + 1
    /\ inserted["A"] = <<2>>

Mismatches(s) == {k \in 1..Len(seen[s]) : seen[s][k].auth # seen[s][k].planned}

C9_SingleOffset ==
    self.force_resume =>
        /\ \A s \in Senders :
              /\ Len(inserted[s]) <= 1
              /\ nonce_offset[s] = IF inserted[s] = <<>> THEN None
                                   ELSE Some(inserted[s][1])
        /\ \A k \in 1..Len(subs) :
              subs[k].auth = Planned(subs[k].entry)
                               + inserted[SenderOf(subs[k].entry)][1]
        /\ NonceConflict =>
              /\ Unwrap(cur.auth) # Planned(cur.entry) + inserted[CurFrom][1]
              /\ Persisted
              /\ CurNotSent

\* a non-zero offset was recorded, and a later transaction no longer fits it
C9_Witness ==
    /\ self.force_resume
    /\ NonceConflict
    /\ inserted[CurFrom] # <<>>
    /\ inserted[CurFrom][1] > 0
    /\ seq.index > start

\* C10: under --force-resume, when the chain's nonce is below the planned
\* nonce of the sender's first transaction of the run, the run ends as a
\* nonce conflict: no offset recorded, store saved, entry not sent.
C10_LowNonceIsConflict ==
    (/\ self.force_resume
     /\ pc = "aborted"
     /\ IsSome(cur.auth)
     /\ Len(seen[CurFrom]) = 1
     /\ Unwrap(cur.auth) < Planned(cur.entry)) =>
        /\ failure = "nonce_conflict"
        /\ nonce_offset[CurFrom] = None
        /\ Persisted
        /\ CurNotSent

\* the addresses of the wallets the run holds
Unlocked == {local_wallets[k].address : k \in 1..Len(local_wallets)}
\* the receipts appended by this run are those of the entries it submitted
CountedUpTo(s, n) ==
    /\ s.index = n
    /\ Len(s.receipts) = n
    /\ \A i \in (start + 1)..n : s.receipts[i] = i - 1

\* C11: an entry whose sender has no wallet is never submitted; the run saves
\* the store and aborts with the persisted cursor at that entry, no receipt
\* for it, no later entry submitted, and the entries this run completed before
\* it counted in the persisted index and receipts.
C11_SenderBinding ==
    /\ \A k \in 1..Len(subs) : SenderOf(subs[k].entry) \in Unlocked
    /\ (pc = "aborted" /\ failure = "unknown_sender") =>
          /\ CurFrom \notin Unlocked
          /\ Persisted
          /\ CurNotSent
          /\ cur.entry = start + Len(subs)
          /\ CountedUpTo(disk, cur.entry)

\* the abort on an unknown sender, after an entry of this run was completed
C11_Witness ==
    /\ pc = "aborted"
    /\ failure = "unknown_sender"
    /\ disk.index > start
    /\ cur.entry < Len(seq.transactions) - 1

\* the entries that were accepted by the node and yielded a receipt
Completed == {i \in DOMAIN rcpt : bcast[i] > 0 /\ rcpt[i] > 0}

\* C12: the persisted index never exceeds the number of entries that were
\* accepted and yielded a receipt, over all runs on the store: every entry
\* below the persisted cursor, and below the cursor in memory, is such an
\* entry, whether the run failed, was killed, or is still going.
C12_CursorIsLowerBound ==
    /\ disk.index <= Cardinality(Completed)
    /\ \A i \in 0..(disk.index - 1) : i \in Completed
    /\ \A i \in 0..(seq.index - 1) : i \in Completed

\* a failed run that completed an entry and then broadcast one for which no
\* receipt came back: the persisted cursor stays on the latter
C12_Witness ==
    /\ pc = "aborted"
    /\ failure = "no_receipt"
    /\ disk.index > start
    /\ bcast[disk.index] > 0
    /\ rcpt[disk.index] = 0

\* C13: from a store whose index lies within 0..len(transactions), the index
\* lies within 0..len(transactions) in every state of the run and in every
\* persisted state of the store.
C13_CursorBounds ==
    /\ seq.index \in 0..Len(seq.transactions)
    /\ disk.index \in 0..Len(disk.transactions)
    /\ start \in 0..Len(disk.transactions)

\* a run that took the cursor from the first entry to the upper bound
C13_Witness ==
    /\ pc = "done"
    /\ start = 0
    /\ Len(disk.transactions) >= 2
    /\ seq.index = Len(seq.transactions)
    /\ disk.index = Len(disk.transactions)

\* the submission made last in this run
LastSub == subs[Len(subs)]

\* C14: a run ends with the signal of a failed send exactly when its last
\* submission was rejected or failed while awaiting confirmation, and with
\* the signal of a missing receipt exactly when that submission came back
\* without receipt; in both cases the store was saved, and the cursor and
\* the receipts, in memory and in the file, still stand at that entry.
C14_SubmissionFailures ==
    (pc = "aborted" /\ failure \in {"send_failed", "no_receipt"}) =>
        /\ Len(subs) > 0
        /\ LastSub.entry = cur.entry
        /\ failure = "send_failed" <=> LastSub.outcome \in {"rejected", "confirm_err"}
        /\ failure = "no_receipt" <=> LastSub.outcome = "none"
        /\ Persisted
        /\ CountedUpTo(seq, cur.entry)
        /\ CountedUpTo(disk, cur.entry)

\* a submission that fails while awaiting confirmation, after an entry of
\* this run was completed
C14_Witness ==
    /\ pc = "aborted"
    /\ failure = "send_failed"
    /\ Len(subs) >= 2
    /\ LastSub.outcome = "confirm_err"
    /\ disk.index = cur.entry

\* C15: the k-th submission of a run is for the entry k - 1 places after the
\* cursor the run started from, and while an entry is being prepared or
\* submitted the receipts of all entries before it have been appended and
\* the cursor stands at it, however the senders alternate in the plan.
C15_AscendingWithoutGaps ==
    /\ \A k \in 1..Len(subs) : subs[k].entry = start + k - 1
    /\ pc \in {"shape", "nonce", "send", "record"} =>
          /\ cur.entry = seq.index
          /\ CountedUpTo(seq, cur.entry)
          /\ Len(subs) = cur.entry - start + (IF pc = "record" THEN 1 ELSE 0)

\* a resumed run in the middle of its second submission, the two entries
\* being of different senders
C15_Witness ==
    /\ pc = "send"
    /\ start > 0
    /\ Len(subs) = 1
    /\ cur.entry = start + 1
    /\ SenderOf(cur.entry) # SenderOf(start)

\* the format chosen for the run and the chain id obtained from the node
Shaped(tx) ==
    /\ tx.kind = (IF is_legacy THEN "Legacy" ELSE "Eip1559")
    /\ tx.chain_id = Some(net)
    /\ tx.chain_id = chain

\* C16: every transaction submitted, and the one shaped for submission, is a
\* legacy transaction when is_legacy holds and an EIP-1559 transaction when
\* it does not, and carries the chain id that the probe returned.
C16_ShapeSelection ==
    /\ \A k \in 1..Len(subs) : Shaped(subs[k].tx)
    /\ pc \in {"nonce", "send"} => Shaped(Unwrap(cur.tx))

\* a second EIP-1559 submission on a chain that is not a legacy chain
C16_Witness ==
    /\ pc = "record"
    /\ ~is_legacy
    /\ Len(subs) = 2
    /\ LastSub.tx.kind = "Eip1559"
    /\ LastSub.tx.chain_id = Some(net)
    /\ net \notin KnownChains

\* C17: a run has reported success only when the index equals the number of
\* transactions, this run submitted every entry from its initial cursor on
\* and appended the receipt of each, and the store was saved after the last
\* of them, the save being the last thing the run did.
C17_SuccessMeansComplete ==
    pc = "done" =>
        /\ seq.index = Len(seq.transactions)
        /\ CountedUpTo(seq, Len(seq.transactions))
        /\ Len(subs) = Len(seq.transactions) - start
        /\ \A k \in 1..Len(subs) : subs[k].outcome = "receipt"
        /\ \A i \in start..(Len(seq.transactions) - 1) : rcpt[i] > 0
        /\ Persisted
        /\ failure = "none"

\* success of a resumed run that had entries left to submit
C17_Witness ==
    /\ pc = "done"
    /\ start > 0
    /\ Len(subs) >= 2
    /\ lastAct = "save"
    /\ disk.index = Len(disk.transactions)

\* nothing was asked of the node about nonces, nothing was submitted, and
\* the store is as the run found it, in memory and in the file
Untouched ==
    /\ subs = <<>>
    /\ \A s \in Senders : seen[s] = <<>>
    /\ seq = disk
    /\ seq.index = start
    /\ Len(seq.receipts) = start
    /\ lastAct # "save"

\* C18: a run probes the chain id once, before the loop: never more than
\* once, not at all before the provider exists, and exactly once when the
\* loop is entered. A run whose probe failed made that one probe, ended in
\* failure, and queried no nonce, submitted nothing and left the index and
\* the receipts as they were.
C18_ProbeOnce ==
    /\ probes <= 1
    /\ pc \in {"wallets", "provider", "probe"} => probes = 0
    /\ pc \in {"select", "shape", "nonce", "send", "record", "final", "done"} =>
          (probes = 1 /\ chain = Some(net))
    /\ failure = "probe" =>
          /\ pc = "aborted"
          /\ probes = 1
          /\ chain = None
          /\ Untouched

\* the probe of a resumed run fails
C18_Witness ==
    /\ pc = "aborted"
    /\ failure = "probe"
    /\ probes = 1
    /\ start > 0
    /\ start < Len(seq.transactions)

\* C19: a run without any wallet, or without an RPC URL, aborts at startup:
\* it never probes the chain, queries no nonce, submits nothing and neither
\* changes nor writes the store; and a run that has probed the chain had a
\* wallet and a URL.
C19_ConfigurationAbort ==
    /\ failure \in {"no_wallet", "no_url"} =>
          /\ pc = "aborted"
          /\ lastAct = "panic"
          /\ probes = 0
          /\ chain = None
          /\ Untouched
    /\ failure = "no_wallet" <=> (pc = "aborted" /\ self.wallets = <<>>)
    /\ failure = "no_url" <=> (pc = "aborted" /\ self.wallets # <<>> /\ ~self.fork_url)
    /\ probes > 0 => (self.wallets # <<>> /\ self.fork_url)

\* a run with a URL and entries left to submit, but no wallet
C19_Witness ==
    /\ pc = "aborted"
    /\ failure = "no_wallet"
    /\ self.fork_url
    /\ start < Len(seq.transactions)
    /\ probes = 0

\* the wallet carries the chain id that the probe returned
BoundToProbed(w) == IsSome(chain) /\ w.chain_id = chain /\ w.chain_id = Some(net)

\* C20: nothing is signed before the probe; from the probe on every wallet
\* of the run is bound to the probed chain id, and so is the signer of the
\* entry at hand and the signer of every submission made.
C20_SignersBoundToChain ==
    /\ probes = 0 => (subs = <<>> /\ cur.signer = None)
    /\ pc \in {"select", "shape", "nonce", "send", "record", "final", "done"} =>
          \A k \in 1..Len(local_wallets) : BoundToProbed(local_wallets[k])
    /\ IsSome(cur.signer) => BoundToProbed(Unwrap(cur.signer))
    /\ \A k \in 1..Len(subs) : BoundToProbed(subs[k].signer)

\* a submission signed by the second of two wallets
C20_Witness ==
    /\ pc = "record"
    /\ Len(local_wallets) = 2
    /\ LastSub.signer.address = local_wallets[2].address
    /\ LastSub.signer.chain_id = Some(net)

\* C21: from the probe to the end of the run is_legacy equals the --legacy
\* flag or the membership of the probed chain id in the chains known to be
\* legacy; on a chain id that is not a known chain it is the flag alone.
\* Flag and chain id are fixed for the run, and so is the classification.
C21_LegacyClassification ==
    probes = 1 /\ IsSome(chain) =>
        /\ is_legacy = (self.legacy \/ (net \in KnownChains /\ net \in LegacyChains))
        /\ net \notin KnownChains => is_legacy = self.legacy
        /\ chain = Some(net)

\* a submission on a chain that is not known, without the --legacy flag
C21_Witness ==
    /\ pc = "send"
    /\ net \notin KnownChains
    /\ ~self.legacy
    /\ ~is_legacy
    /\ Len(subs) >= 1

\* the entry at hand has its wire format and carries a chain id
CurShaped == IsSome(cur.tx) /\ IsSome(Unwrap(cur.tx).chain_id)
\* the chain was asked for the nonce of the sender of the entry at hand
CurReconciled == IsSome(cur.auth)
\* the entry at hand was submitted
CurSubmitted == IsSome(cur.tx) /\ Len(subs) > 0 /\ LastSub.entry = cur.entry

\* C22 as claimed: the nonce of an entry is reconciled against the chain
\* before the entry is shaped and stamped with the chain id, so an entry that
\* is shaped has been reconciled.
C22_ReconcileBeforeShape == CurShaped => CurReconciled

\* C22: the steps on an entry follow the order select-signer, shape,
\* reconcile-nonce, submit and await the receipt, record-and-advance: a shaped
\* entry has a signer, the nonce is only asked for a shaped entry, only a
\* reconciled entry is submitted, and a receipt is only recorded for the
\* entry submitted last, the cursor still standing at it.
C22_ShapeBeforeReconcile ==
    /\ pc = "shape" =>
          /\ IsSome(cur.signer)
          /\ Unwrap(cur.tx) = seq.transactions[cur.entry + 1]
          /\ ~CurReconciled
    /\ CurShaped => IsSome(cur.signer)
    /\ pc = "nonce" => CurShaped /\ ~CurReconciled /\ ~CurSubmitted
    /\ CurReconciled => CurShaped
    /\ pc = "send" => CurReconciled /\ ~CurSubmitted
    /\ CurSubmitted => CurReconciled
    /\ pc = "record" =>
          /\ CurSubmitted
          /\ LastSub.outcome = "receipt"
          /\ seq.index = cur.entry
          /\ Len(seq.receipts) = cur.entry

\* the second entry of a run, shaped as EIP-1559 and stamped with the chain
\* id, the nonce of its sender not yet asked for
C22_Witness ==
    /\ pc = "nonce"
    /\ Len(subs) = 1
    /\ Unwrap(cur.tx).kind = "Eip1559"
    /\ Unwrap(cur.tx).chain_id = chain
    /\ cur.auth = None

\* C23: no step of a run, and no save, changes the transactions of the
\* store, neither in memory nor in the file: shaping and the rewriting of
\* nonces work on a copy of the entry.
C23_PlanUnchanged ==
    [][/\ seq'.transactions = seq.transactions
       /\ disk'.transactions = disk.transactions]_vars

\* a successful run under --force-resume that submitted an entry as EIP-1559
\* with a nonce other than the planned one, the file holding the entry as
\* planned
C23_Witness ==
    /\ pc = "done"
    /\ lastAct = "save"
    /\ \E k \in 1..Len(subs) :
          /\ subs[k].tx.kind = "Eip1559"
          /\ subs[k].tx.nonce # disk.transactions[subs[k].entry + 1].nonce
          /\ disk.transactions[subs[k].entry + 1].kind = "Legacy"
          /\ disk.transactions[subs[k].entry + 1].chain_id = None

\* the offset in force for a sender: the one recorded under --force-resume,
\* zero without the flag
OffsetOf(s) == IF self.force_resume THEN nonce_offset[s] ELSE Some(0)
\* the nonce on the transaction is the planned nonce plus the offset of the
\* sender, and is the nonce the chain reported for the sender
NonceIsAuthoritative(entry, tx, auth) ==
    /\ IsSome(OffsetOf(SenderOf(entry)))
    /\ Unwrap(tx.nonce) = Planned(entry) + Unwrap(OffsetOf(SenderOf(entry)))
    /\ Unwrap(tx.nonce) = auth

\* C24: every transaction submitted, and the one about to be submitted,
\* carries the planned nonce plus the offset of its sender (zero without
\* --force-resume), which is the nonce the chain reported for the sender
\* when it was asked just before.
C24_SubmittedNonce ==
    /\ \A k \in 1..Len(subs) : NonceIsAuthoritative(subs[k].entry, subs[k].tx, subs[k].auth)
    /\ pc = "send" => NonceIsAuthoritative(cur.entry, Unwrap(cur.tx), Unwrap(cur.auth))

\* a second submission with a nonce ahead of the planned one
C24_Witness ==
    /\ pc = "record"
    /\ self.force_resume
    /\ Len(subs) = 2
    /\ LastSub.auth > Planned(LastSub.entry)
    /\ LastSub.tx.nonce = Some(LastSub.auth)

\* C25: a run submits no entry twice. Every submission but the last one
\* yielded a receipt, and a submission without receipt ended the run, so
\* the submissions of a run number index - start when it succeeds (index
\* being the cursor the run holds) and at most one more when it fails.
C25_NoRetry ==
    /\ \A j, k \in 1..Len(subs) : j # k => subs[j].entry # subs[k].entry
    /\ \A k \in 1..(Len(subs) - 1) : subs[k].outcome = "receipt"
    /\ (Len(subs) > 0 /\ LastSub.outcome # "receipt") =>
          (pc = "aborted" /\ Len(subs) = seq.index - start + 1)
    /\ pc = "done" => Len(subs) = seq.index - start
    /\ pc = "aborted" => Len(subs) \in {seq.index - start, seq.index - start + 1}
    /\ Len(subs) <= seq.index - start + 1

\* a run that ends on its second submission, which the node rejected
C25_Witness ==
    /\ pc = "aborted"
    /\ Len(subs) = 2
    /\ LastSub.outcome = "rejected"
    /\ seq.index = start + 1
    /\ bcast[LastSub.entry] = 0

\* the offset recorded for a sender is the disparity seen at the sender's
\* own first reconciliation of the run
OwnOffset(s) ==
    IsSome(nonce_offset[s]) =>
        /\ seen[s] # <<>>
        /\ Unwrap(nonce_offset[s]) = seen[s][1].auth - seen[s][1].planned

\* C26: the offset recorded for a sender comes from that sender's own first
\* reconciliation, and the reconciliation of an entry, whatever its outcome,
\* leaves the offset of every other sender as it was, recorded or not.
C26_OffsetsPerSender ==
    /\ [](\A s \in Senders : OwnOffset(s))
    /\ [][(pc = "nonce" /\ pc' # "killed") =>
            \A s \in Senders \ {CurFrom} : nonce_offset'[s] = nonce_offset[s]]_vars

\* both senders of an interleaved plan hold an offset, and the two differ
C26_Witness ==
    /\ pc = "send"
    /\ self.force_resume
    /\ \A s \in Senders : IsSome(nonce_offset[s])
    /\ \E s, t \in Senders : nonce_offset[s] # nonce_offset[t]

\* the entry at hand is the first of its sender that this run reconciles
CurFirstOfSender == IsSome(cur.tx) /\ IsSome(cur.auth) /\ Len(seen[CurFrom]) = 1

\* C27: under --force-resume the first entry of a sender in a run, when the
\* chain's nonce is at or ahead of its planned nonce, passes reconciliation
\* whatever the disparity: the disparity is recorded as the sender's offset
\* and the entry goes to submission with the chain's nonce.
C27_AnyDisparityAccepted ==
    (self.force_resume /\ CurFirstOfSender /\ Unwrap(cur.auth) >= Planned(cur.entry)) =>
        /\ ~(pc = "aborted" /\ failure \in {"nonce_conflict", "overflow"})
        /\ pc \in {"send", "record", "aborted"}
        /\ nonce_offset[CurFrom] = Some(Unwrap(cur.auth) - Planned(cur.entry))
        /\ Unwrap(cur.tx).nonce = cur.auth
        /\ CurSubmitted => LastSub.tx.nonce = cur.auth

\* the first entry of a sender goes to submission with the chain's nonce,
\* which is two ahead of the planned one
C27_Witness ==
    /\ pc = "send"
    /\ self.force_resume
    /\ CurFirstOfSender
    /\ Unwrap(cur.auth) - Planned(cur.entry) >= MaxInitNonce + MaxDrift
    /\ Unwrap(cur.tx).nonce = cur.auth

\* the run is over: it reported success or ended on a fatal condition
Terminal == pc \in {"done", "aborted"}

\* C28: an invocation whose calls all return ends, with success or with a
\* fatal abort, and stays ended in that one way; success comes with the
\* index at the number of transactions, and the run takes up no more
\* entries than the plan held from its initial cursor on.
C28_Termination ==
    /\ <>Terminal
    /\ [](pc = "done" => [](pc = "done"))
    /\ [](pc = "aborted" => [](pc = "aborted"))
    /\ [](pc = "done" => seq.index = Len(seq.transactions))
    /\ [](pc # "idle" => Len(subs) <= Len(seq.transactions) - start)

\* a run that ended on a fatal condition after it had taken up every entry
\* left in a plan of more than one
C28_Witness ==
    /\ pc = "aborted"
    /\ start = 0
    /\ Len(subs) = Len(seq.transactions)
    /\ Len(subs) >= 2

\* C29: the signer chosen for an entry, and the signer of every submission,
\* is a wallet of the run whose address is the from of the entry, wherever
\* that wallet stands among the wallets.
C29_SignerByAddress ==
    /\ IsSome(cur.signer) =>
          /\ Unwrap(cur.signer).address = CurFrom
          /\ Unwrap(cur.signer).address = SenderOf(cur.entry)
          /\ \E k \in 1..Len(local_wallets) : local_wallets[k] = Unwrap(cur.signer)
    /\ \A k \in 1..Len(subs) :
          /\ subs[k].signer.address = SenderOf(subs[k].entry)
          /\ subs[k].signer.address = Unwrap(subs[k].tx.from)

\* two submissions of one run signed by different wallets, the first of
\* them by the wallet that stands second
C29_Witness ==
    /\ Len(local_wallets) = 2
    /\ Len(subs) = 2
    /\ subs[1].signer = local_wallets[2]
    /\ subs[2].signer = local_wallets[1]
    /\ subs[1].signer.address = SenderOf(subs[1].entry)

\* the argument of into_1559 and its results
ConvArg == Unwrap(conv.arg)
ConvOut(k) == conv.out[k]

\* C30: into_1559 turns a legacy transaction into an EIP-1559 transaction
\* with the same from, to, value, data and nonce and no fee set, returns an
\* EIP-1559 transaction as it is, and applied to its own result returns
\* that result.
C30_Into1559 ==
    /\ (Len(conv.out) >= 1 /\ ConvArg.kind = "Legacy") =>
          /\ ConvOut(1).kind = "Eip1559"
          /\ ConvOut(1).from = ConvArg.from
          /\ ConvOut(1).to = ConvArg.to
          /\ ConvOut(1).value = ConvArg.value
          /\ ConvOut(1).data = ConvArg.data
          /\ ConvOut(1).nonce = ConvArg.nonce
          /\ ConvOut(1).fee = None
    /\ (Len(conv.out) >= 1 /\ ConvArg.kind = "Eip1559") => ConvOut(1) = ConvArg
    /\ Len(conv.out) >= 2 => ConvOut(2) = ConvOut(1)

\* a legacy transaction with every field set went through into_1559 twice
C30_Witness ==
    /\ Len(conv.out) = 2
    /\ ConvArg.kind = "Legacy"
    /\ \A f \in {"from", "to", "value", "data", "nonce", "fee", "chain_id"} :
          IsSome(ConvArg[f])
    /\ ConvOut(2).kind = "Eip1559"

====
